---- MODULE Spec2Model ----
(***************************************************************************)
(* Sharing-group lifecycle and payment reconciliation of One AI.           *)
(*                                                                         *)
(* The model follows one sharing group (one row of `sharings`), the rows   *)
(* of sharing_participants, payment_logs, subscriptions and refunds that   *)
(* belong to it, the payment gateway's objects (payment intents,           *)
(* subscriptions, events) and the HTTP requests in flight.                 *)
(*                                                                         *)
(* Request handlers: src/backend/sharing.js.  Webhook handlers and the     *)
(* gateway calls: src/unnamed/part_002 (the payment service).  Database    *)
(* helpers and the schema: src/unnamed/part_001 (the database module).     *)
(*                                                                         *)
(* SQL statements are modelled by the effect their text has on the         *)
(* columns kept here, and the driver is taken to provide the transaction   *)
(* calls the handlers make.  A statement run with the handler's            *)
(* `connection` belongs to the handler's transaction; a statement run      *)
(* without it goes to the pool (part_001:450-459) and reads committed data *)
(* only.  A column that a statement names is taken to exist in its table.  *)
(*                                                                         *)
(* Seven specifications: Spec is the request handlers of sharing.js, the   *)
(* cleanup sweep, the create-subscription request and the deliveries of    *)
(* subscription and invoice events; SpecIntentEvents is the payment of the *)
(* join intents and the deliveries of their events; SpecActivation is      *)
(* confirm-payment and leave under a clock that moves; SpecWebhookFailure  *)
(* is the subscription events with a handler that may throw part way;      *)
(* SpecSweep is SpecActivation with the daily sweep, which keeps running;  *)
(* SpecCreate is the create requests of one creator for one service, with  *)
(* the status changes of the groups they make; SpecRefund is the calls of  *)
(* calculateProRatedRefund.                                                *)
(***************************************************************************)
EXTENDS Integers, Sequences, FiniteSets, TLC

\* ----------------------------------------------------------------- bounds
NumUsers == 3
MaxEvents == 1
MaxIntentEvents == 2
MaxDeliveries == 2
MaxJoins == 1
MaxSubs == 1
MaxTime == 1
MaxRefunds == 1
MaxCost == 40
MaxClock == 2
MaxGroups == 4
MaxCreates == 2

\* ------------------------------------------------------ program constants
MinParticipants == 2
MaxParticipants == 10
ServicePriceUsd == 20
UsdToKrw == 1380
FeePercent == 10

Users == 1..NumUsers

\* Create requests of one creator for one service_type that may overlap.
CreateRequests == 1..MaxCreates

\* Ids of the gateway's events.
EventIds ==
    1..(IF MaxEvents > MaxIntentEvents THEN MaxEvents ELSE MaxIntentEvents)
NULL == 0

SHARING_STATUS == {"recruiting", "active", "paused", "ended"}
PARTICIPANT_STATUS == {"pending", "active", "payment_failed", "left"}

\* Every value some statement can write to sharing_participants.status;
\* "none" stands for "no row for this user".
ParticipantStatusValues ==
    PARTICIPANT_STATUS \cup {"none", "paid", "past_due", "canceled"}

\* max_participants values a create request may carry.
CreateMaxChoices == {1, 2, 3, 11}

\* Statuses an administrator sets.
AdminStatusChoices == {"recruiting", "active", "ended"}

\* (days in month, day of month) pairs a leave may run on.
LeaveDays == {<<30, 20>>, <<30, 30>>}

VARIABLES
    sharing,        \* the sharings row
    participants,   \* sharing_participants rows of the group, by user_id
    payment_logs,   \* payment_logs rows, in insertion order
    subscriptions,  \* subscriptions rows with the gateway's subscription object
    refunds,        \* refunds rows, in insertion order
    intents,        \* gateway: status of the payment intent of each user's join
    events,         \* gateway: events created so far; the index is the event id
    inflight,       \* webhook deliveries received and not yet handled, per event
    handled,        \* webhook deliveries handled and acknowledged, per event
    joinPc,         \* position of each user's join request
    rejected,       \* webhook deliveries answered 400 or 500
    refundCalc,     \* a call of calculateProRatedRefund: its inputs and result
    groups,         \* status of each sharings row of one creator and service
    createPc        \* position of each create request of that creator

vars == <<sharing, participants, payment_logs, subscriptions, refunds, intents,
          events, inflight, handled, joinPc, rejected, refundCalc,
          groups, createPc>>

dbVars == <<sharing, participants, payment_logs, subscriptions, refunds>>

createVars == <<groups, createPc>>

\* --------------------------------------------------------------- helpers

\* Math.round of the non-negative rational n / d.
Round(n, d) == (2 * n + d) \div (2 * d)

NoRow == [status |-> "none", payment_status |-> "none",
          payment_intent_id |-> NULL, monthly_cost |-> NULL]

NoSharing == [exists |-> FALSE, creator_id |-> NULL, max_participants |-> NULL,
              status |-> "none", started_at |-> NULL, current_participants |-> 0]

\* An HTTP response: the status code, what the body says, and the fields of
\* its `data` object that the handlers fill in.
NoData == [flag |-> FALSE, count |-> 0, status |-> "none"]

Resp(code, reason) == [code |-> code, reason |-> reason, data |-> NoData]

RespData(flag, count, status) ==
    [code |-> 200, reason |-> "ok",
     data |-> [flag |-> flag, count |-> count, status |-> status]]

\* SELECT COUNT(*) FROM sharing_participants WHERE sharing_id = ? AND status = ?
CountStatus(rows, st) == Cardinality({u \in Users : rows[u].status = st})

ActiveCount == CountStatus(participants, "active")
PendingCount == CountStatus(participants, "pending")

\* totalCostKRW of a join: Math.round((price / max) * (1 + FEE_RATE) * 1380).
TotalCostKRW(maxp) ==
    Round(ServicePriceUsd * (100 + FeePercent) * UsdToKrw, maxp * 100)

\* The sharing_participants and payment_logs rows the join's two INSERT
\* statements write for user u and payment intent u.
JoinParticipantRow(u, maxp) ==
    [status |-> "pending", payment_status |-> "pending",
     payment_intent_id |-> u, monthly_cost |-> TotalCostKRW(maxp)]

JoinPaymentLogRow(u) ==
    [type |-> "none", stripe_id |-> <<>>, stripe_payment_intent_id |-> u,
     user_id |-> u, status |-> "requires_payment_method"]

\* The rows the create handler writes.
CreatedSharing(u, maxp) ==
    [exists |-> TRUE, creator_id |-> u, max_participants |-> maxp,
     status |-> "recruiting", started_at |-> NULL, current_participants |-> 0]

CreatorRow ==
    [status |-> "active", payment_status |-> "pending",
     payment_intent_id |-> NULL, monthly_cost |-> NULL]

\* ------------------------------------------------------------------ Init

\* The database holds either no group, or a recruiting group as the create
\* handler writes it together with, for any of the other users, the rows the
\* join handler's INSERT statements write (a pending participant and its
\* payment log) and the payment intent they refer to.  The join's capacity
\* check (sharing.js:467) counts active rows only, so it bounds no number of
\* pending rows.
SeededParticipants(creator, joined, maxp) ==
    [u \in Users |->
        IF u = creator THEN CreatorRow
        ELSE IF u \in joined THEN JoinParticipantRow(u, maxp)
        ELSE NoRow]

RECURSIVE SeededLogs(_, _)
SeededLogs(u, joined) ==
    IF u > NumUsers THEN <<>>
    ELSE (IF u \in joined THEN <<JoinPaymentLogRow(u)>> ELSE <<>>)
         \o SeededLogs(u + 1, joined)

NoCalc == [monthlyAmount |-> 0, daysInMonth |-> 0, day |-> 0, refund |-> -1]

InitGateway ==
    /\ subscriptions = <<>>
    /\ refunds = <<>>
    /\ events = <<>>
    /\ inflight = [i \in EventIds |-> 0]
    /\ handled = [i \in EventIds |-> 0]
    /\ joinPc = [u \in Users |-> "idle"]
    /\ rejected = 0
    /\ groups = <<>>
    /\ createPc = [r \in CreateRequests |-> "idle"]

Init ==
    /\ \/ /\ sharing = NoSharing
          /\ participants = [u \in Users |-> NoRow]
          /\ payment_logs = <<>>
          /\ intents = [u \in Users |-> "none"]
       \/ \E maxp \in {2, 3}, joined \in {{}, {2}, {2, 3}} :
          /\ sharing = CreatedSharing(1, maxp)
          /\ participants = SeededParticipants(1, joined, maxp)
          /\ payment_logs = SeededLogs(1, joined)
          /\ intents = [u \in Users |->
                          IF u \in joined THEN "requires_payment_method"
                          ELSE "none"]
    /\ InitGateway
    /\ refundCalc = NoCalc

\* ---------------------------------------------------------------- create

\* POST /api/sharing/create (the single-group model: at most one create
\* succeeds; `existingSharing` rejects a second one by the same creator and
\* service).
\* A create whose handler lacks the check of max_participants.
CreateResponse_NoRangeCheck(u, maxp) == Resp(201, "ok")

CreateResponse(u, maxp) ==
    IF maxp < MinParticipants \/ maxp > MaxParticipants
    THEN Resp(400, "max_participants")
    ELSE Resp(201, "ok")

Create(u, maxp) ==
    /\ ~sharing.exists
    /\ IF CreateResponse(u, maxp).code = 400
       THEN UNCHANGED <<sharing, participants>>
       ELSE /\ sharing' = CreatedSharing(u, maxp)
            /\ participants' = [participants EXCEPT ![u] = CreatorRow]
    /\ UNCHANGED <<payment_logs, subscriptions, refunds, intents, events,
                   inflight, handled, joinPc, rejected, refundCalc, createVars>>

\* ------------------------------------------------------------------ join

\* `const paymentIntent` is declared inside the inner try block
\* (sharing.js:485-486) and read after that block has ended (533, 548, 566):
\* the name is not in scope there, so evaluating the INSERT's parameters
\* throws a ReferenceError.
PaymentIntentInScope == FALSE

\* A join whose validations lack the existingParticipant lookup.
JoinCheckResponse_NoExistingCheck(u) ==
    IF ~sharing.exists \/ sharing.status # "recruiting"
    THEN Resp(404, "not_found")
    ELSE IF ActiveCount >= sharing.max_participants
    THEN Resp(400, "group_full")
    ELSE Resp(0, "none")

\* sharing.js:426-499: the group lookup, the three validations and the call
\* of stripe.paymentIntents.create, on which the handler then waits.
\* The response the validations send, or "none" when they all pass.
JoinCheckResponse(u) ==
    IF ~sharing.exists \/ sharing.status # "recruiting"
    THEN Resp(404, "not_found")
    ELSE IF participants[u].status \in {"pending", "active"}
    THEN Resp(400, "already_joined")
    ELSE IF ActiveCount >= sharing.max_participants
    THEN Resp(400, "group_full")
    ELSE Resp(0, "none")

\* Whether the transaction that beginTransaction opened (sharing.js:427) is
\* open at a position of the join: the handler waits for
\* stripe.paymentIntents.create (486) with no commit or rollback since 427;
\* the first commit is at 557, after the call and the INSERTs.
JoinTransactionOpenAt(pc) == pc = "gateway"

JoinCheck(u) ==
    /\ joinPc[u] = "idle"
    /\ Cardinality({v \in Users : joinPc[v] # "idle"}) < MaxJoins
    /\ IF JoinCheckResponse(u).code # 0
       THEN UNCHANGED joinPc
       ELSE joinPc' = [joinPc EXCEPT ![u] = "gateway"]
    /\ UNCHANGED <<dbVars, intents, events, inflight, handled, rejected,
                   refundCalc, createVars>>

\* sharing.js:500-586: the gateway call returns (ok) or throws; then the two
\* INSERTs, the commit and the response, or a catch block.
\* UNIQUE(sharing_id, user_id) (part_001:111) refuses a second row for the
\* pair whatever the first row's status is.  The intent of a join that ends
\* in the catch block stays at the gateway, where nothing refers to it.
JoinFinishResponse(u, ok) ==
    IF ~ok THEN Resp(400, "payment_intent")
    ELSE IF PaymentIntentInScope /\ participants[u].status = "none"
    THEN Resp(200, "ok")
    ELSE Resp(500, "error")

\* What has become of the transaction that beginTransaction opened
\* (sharing.js:427) when the finally block releases the connection to the
\* pool (584): the gateway error returns from inside the try (509-516)
\* without commit or rollback; the success path commits (557); the outer
\* catch rolls back (576).
JoinTransaction(u, ok) ==
    IF ~ok THEN "open"
    ELSE IF JoinFinishResponse(u, ok).code = 200 THEN "committed"
    ELSE "rolled_back"

JoinFinish(u, ok) ==
    /\ joinPc[u] = "gateway"
    /\ joinPc' = [joinPc EXCEPT ![u] = "idle"]
    /\ IF JoinFinishResponse(u, ok).code = 200
       THEN /\ participants' = [participants EXCEPT
                                  ![u] = JoinParticipantRow(u, sharing.max_participants)]
            /\ payment_logs' = Append(payment_logs, JoinPaymentLogRow(u))
            /\ intents' = [intents EXCEPT ![u] = "requires_payment_method"]
       ELSE UNCHANGED <<participants, payment_logs, intents>>
    /\ UNCHANGED <<sharing, subscriptions, refunds, events, inflight,
                   handled, rejected, refundCalc, createVars>>

\* ------------------------------------------------------- confirm-payment

\* createSubscription (part_002:869-941): one gateway subscription and one
\* subscriptions row per participant of `who` for whom the gateway calls
\* succeed (ok); a failure for one participant is logged and skipped.
RECURSIVE NewSubscriptions(_, _)
NewSubscriptions(u, ok) ==
    IF u > NumUsers THEN <<>>
    ELSE (IF u \in ok
          THEN <<[user_id |-> u, status |-> "active", gateway |-> "active"]>>
          ELSE <<>>)
         \o NewSubscriptions(u + 1, ok)

\* UPDATE payment_logs SET status = 'succeeded' WHERE stripe_payment_intent_id = ?
ConfirmLogs(logs, pi) ==
    [i \in DOMAIN logs |->
        IF logs[i].stripe_payment_intent_id = pi
        THEN [logs[i] EXCEPT !.status = "succeeded"]
        ELSE logs[i]]

\* UPDATE sharing_participants SET status = 'active'
\*  WHERE sharing_id = ? AND user_id = ? AND payment_intent_id = ?
ConfirmParticipant(rows, u, pi) ==
    IF rows[u].status # "none" /\ rows[u].payment_intent_id = pi
    THEN [rows EXCEPT ![u].status = "active"]
    ELSE rows

\* The two SELECTs after the UPDATEs (sharing.js:351-362) carry no
\* `connection`: they run on the pool and see the committed rows, not the
\* handler's own uncommitted UPDATE.
ConfirmActiveCount(committed, updated) == CountStatus(committed, "active")

\* POST /api/sharing/:id/confirm-payment by user u with payment_intent_id pi;
\* ok is the set of participants whose subscription the gateway creates and
\* t is what NOW() returns, no earlier than any time stored before.
ConfirmResponse(u, pi) ==
    LET active_count == ConfirmActiveCount(participants,
                                           ConfirmParticipant(participants, u, pi))
    IN  IF intents[pi] = "none" \/ ~sharing.exists
        THEN Resp(500, "error")
        ELSE IF intents[pi] # "succeeded"
        THEN Resp(400, "not_paid")
        ELSE RespData(FALSE, active_count,
                      IF active_count >= sharing.max_participants
                      THEN "active" ELSE "recruiting")

ConfirmPayment(u, pi, ok, t) ==
    LET active_count == ConfirmActiveCount(participants,
                                           ConfirmParticipant(participants, u, pi))
        full == active_count >= sharing.max_participants
        who == {v \in Users : participants[v].status = "active"}
    IN
    /\ IF ConfirmResponse(u, pi).code # 200
       THEN /\ ok = {} /\ t = 1
            /\ UNCHANGED <<sharing, participants, payment_logs, subscriptions>>
       ELSE /\ participants' = ConfirmParticipant(participants, u, pi)
            /\ payment_logs' = ConfirmLogs(payment_logs, pi)
            /\ IF full
               THEN /\ ok \subseteq who
                    /\ Len(subscriptions) + Cardinality(ok) <= MaxSubs
                    /\ t >= sharing.started_at
                    /\ sharing' = [sharing EXCEPT !.status = "active",
                                                  !.started_at = t]
                    /\ subscriptions' = subscriptions \o NewSubscriptions(1, ok)
               ELSE /\ ok = {} /\ t = 1
                    /\ UNCHANGED <<sharing, subscriptions>>
    /\ UNCHANGED <<refunds, intents, events, inflight, handled, joinPc, rejected,
                   refundCalc, createVars>>

\* ----------------------------------------------------------------- leave

\* calculateProRatedRefund (sharing.js:953-960); daysInMonth and daysPassed
\* are what the handler reads from the system clock.
\* The result is Math.round((monthlyAmount / daysInMonth) * remainingDays) in
\* double arithmetic.  Away from a tie that is the nearest integer.  When the
\* exact product is k + 1/2, the rounding error of the quotient leaves the
\* double product either at k + 1/2, which Math.round takes to k + 1
\* ((2 / 28) * 21 is 1.5), or just below it, which Math.round takes to k
\* ((34 / 28) * 21 is 25.499999999999996).  DoubleBelowTie lists the
\* <<monthlyAmount, daysInMonth, daysPassed>> of the second kind among the
\* amounts of DoubleTieAmounts; for a tie of any other amount the operator
\* gives both neighbours.
DoubleTieAmounts == 0..200

DoubleBelowTie ==
    {<<34, 28, 7>>, <<61, 28, 14>>, <<65, 30, 3>>, <<69, 30, 5>>,
     <<82, 28, 7>>, <<115, 28, 14>>, <<122, 28, 7>>, <<122, 28, 21>>,
     <<123, 30, 5>>, <<123, 30, 15>>, <<150, 28, 7>>, <<153, 30, 5>>}

\* A refund that is prorated over the days passed, not the days remaining.
calculateProRatedRefund_DaysPassed(monthlyAmount, daysInMonth, daysPassed) ==
    {Round(monthlyAmount * daysPassed, daysInMonth)}

calculateProRatedRefund(monthlyAmount, daysInMonth, daysPassed) ==
    LET remainingDays == daysInMonth - daysPassed
        n == monthlyAmount * remainingDays
        k == n \div daysInMonth
        tie == (2 * n) % daysInMonth = 0 /\ ((2 * n) \div daysInMonth) % 2 = 1
    IN  IF ~tie THEN {Round(n, daysInMonth)}
        ELSE IF <<monthlyAmount, daysInMonth, daysPassed>> \in DoubleBelowTie
        THEN {k}
        ELSE IF monthlyAmount \in DoubleTieAmounts THEN {k + 1}
        ELSE {k, k + 1}

\* processRefund (sharing.js:988-1005): the INSERT into refunds runs on the
\* pool; when it fails the error is caught and {success: false} is returned.
processRefund(rows, u, amount, ok) ==
    IF ok THEN Append(rows, [user_id |-> u, amount |-> amount]) ELSE rows

\* The count after the UPDATE (sharing.js:775-780) carries no `connection`
\* either: it sees the committed rows, in which the leaver is still active.
LeaveActiveCount(committed, updated) == CountStatus(committed, "active")

\* What the leave does to the group row once the participant is marked left.
LeaveSharing(s, active_count) ==
    IF active_count < 2
    THEN [s EXCEPT !.status = "recruiting", !.started_at = NULL]
    ELSE s

\* A leave whose validation lacks the creator check.
LeaveResponse_NoCreatorCheck(u, d, refundOk) ==
    LET left == [participants EXCEPT ![u].status = "left"]
    IN  IF ~sharing.exists \/ participants[u].status # "active"
        THEN Resp(404, "not_found")
        ELSE RespData(sharing.status = "active",
                      LeaveActiveCount(participants, left), "none")

\* POST /api/sharing/:id/leave by user u on day d[2] of a month of d[1] days;
\* refundOk tells whether the INSERT into refunds succeeds.
LeaveResponse(u, d, refundOk) ==
    LET left == [participants EXCEPT ![u].status = "left"]
    IN  IF ~sharing.exists \/ participants[u].status # "active"
        THEN Resp(404, "not_found")
        ELSE IF sharing.creator_id = u
        THEN Resp(400, "creator")
        ELSE RespData(sharing.status = "active",
                      LeaveActiveCount(participants, left), "none")

Leave(u, d, refundOk) ==
    \E refundAmount \in calculateProRatedRefund(participants[u].monthly_cost,
                                                d[1], d[2]) :
    LET refunding == sharing.status = "active" /\ refundAmount > 0
        left == [participants EXCEPT ![u].status = "left"]
        active_count == LeaveActiveCount(participants, left)
    IN
    /\ IF LeaveResponse(u, d, refundOk).code # 200
       THEN /\ refundOk
            /\ UNCHANGED <<sharing, participants, refunds>>
       ELSE /\ refunding \/ refundOk
            /\ refunding /\ refundOk => Len(refunds) < MaxRefunds
            /\ refunds' = IF refunding
                          THEN processRefund(refunds, u, refundAmount, refundOk)
                          ELSE refunds
            /\ participants' = left
            /\ sharing' = LeaveSharing(sharing, active_count)
    /\ UNCHANGED <<payment_logs, subscriptions, intents, events, inflight,
                   handled, joinPc, rejected, refundCalc, createVars>>

\* ----------------------------------------------------------------- admin

\* PUT /api/sharing/:id/admin by an administrator: the status is written as
\* given.
Admin(st) ==
    /\ sharing.exists
    /\ sharing' = [sharing EXCEPT !.status = st]
    /\ UNCHANGED <<participants, payment_logs, subscriptions, refunds,
                   intents, events, inflight, handled, joinPc, rejected, refundCalc, createVars>>

\* --------------------------------------------------------------- cleanup

\* A sweep whose UPDATE lacks the NOT IN subquery on the active participants.
cleanupExpiredSharings_AnyCount(expired) ==
    /\ sharing.exists
    /\ sharing' = IF expired /\ sharing.status = "recruiting"
                  THEN [sharing EXCEPT !.status = "ended"]
                  ELSE sharing
    /\ UNCHANGED <<participants, payment_logs, subscriptions, refunds,
                   intents, events, inflight, handled, joinPc, rejected,
                   refundCalc, createVars>>

\* cleanupExpiredSharings (sharing.js:1051-1072), run once a day: a
\* recruiting group created more than 30 days ago (expired) that has at most
\* one active participant is ended.
cleanupExpiredSharings(expired) ==
    /\ sharing.exists
    /\ sharing' = IF expired /\ sharing.status = "recruiting" /\ ActiveCount <= 1
                  THEN [sharing EXCEPT !.status = "ended"]
                  ELSE sharing
    /\ UNCHANGED <<participants, payment_logs, subscriptions, refunds,
                   intents, events, inflight, handled, joinPc, rejected,
                   refundCalc, createVars>>

\* --------------------------------------------------------------- gateway

IntentId(u) == <<"pi", u>>
SubscriptionId(k) == <<"sub", k>>

\* The metadata the join attaches to its payment intent (sharing.js:490-495)
\* has the keys sharing_id and user_id; the webhook handlers read the keys
\* sharingId and userId (part_002:568-569), which it does not have.
JoinIntentMetadata(u) ==
    [sharing_id |-> 1, user_id |-> u, sharingId |-> NULL, userId |-> NULL]

\* The metadata createSubscription attaches (part_002:895-900).
SubscriptionMetadata(k) ==
    [sharingId |-> 1, userId |-> subscriptions[k].user_id]

IntentEventTypes == {"payment_intent.succeeded", "payment_intent.payment_failed"}

SubscriptionEventTypes ==
    {"invoice.payment_succeeded", "invoice.payment_failed",
     "customer.subscription.updated", "customer.subscription.deleted"}

\* The customer pays the join intent of user u.
PayIntent(u) ==
    /\ intents[u] = "requires_payment_method"
    /\ intents' = [intents EXCEPT ![u] = "succeeded"]
    /\ UNCHANGED <<dbVars, events, inflight, handled, joinPc, rejected, refundCalc, createVars>>

NewEvent(e, max) ==
    /\ Len(events) < max
    /\ \A i \in DOMAIN events : events[i] # e
    /\ events' = Append(events, e)

\* The gateway creates an event for the join intent of user u: a failed
\* attempt while the intent is unpaid, the success once it is paid.
EmitIntentEvent(u, type) ==
    /\ \/ type = "payment_intent.succeeded" /\ intents[u] = "succeeded"
       \/ type = "payment_intent.payment_failed"
          /\ intents[u] = "requires_payment_method"
    /\ NewEvent([type |-> type, obj |-> u, status |-> "none"], MaxIntentEvents)
    /\ UNCHANGED <<dbVars, intents, inflight, handled, joinPc, rejected, refundCalc, createVars>>

\* The gateway changes subscription k and creates the event that reports it;
\* st is the subscription's status afterwards.
EmitSubscriptionEvent(k, type, st) ==
    /\ k \in DOMAIN subscriptions
    /\ subscriptions[k].gateway # "canceled"
    /\ \/ type = "customer.subscription.updated"
          /\ st \in {"active", "past_due", "canceled"}
       \/ type = "customer.subscription.deleted" /\ st = "canceled"
       \/ type = "invoice.payment_succeeded" /\ st = "active"
       \/ type = "invoice.payment_failed" /\ st = "past_due"
    /\ NewEvent([type |-> type, obj |-> k, status |-> st], MaxEvents)
    /\ subscriptions' = [subscriptions EXCEPT ![k].gateway = st]
    /\ UNCHANGED <<sharing, participants, payment_logs, refunds, intents,
                   inflight, handled, joinPc, rejected, refundCalc, createVars>>

\* --------------------------------------------------------------- webhook

\* updatePaymentLog (part_001:534-570): UPDATE payment_logs SET status = $1
\* WHERE stripe_id = $2.
updatePaymentLog(logs, stripeId, st) ==
    [i \in DOMAIN logs |->
        IF logs[i].stripe_id = stripeId
        THEN [logs[i] EXCEPT !.status = st]
        ELSE logs[i]]

\* savePaymentLog (part_001:504-529): INSERT INTO payment_logs.
savePaymentLog(logs, userId, type, stripeId, st) ==
    Append(logs, [type |-> type, stripe_id |-> stripeId,
                  stripe_payment_intent_id |-> NULL, user_id |-> userId,
                  status |-> st])

\* updateSharingParticipantStatus (part_001:830-844): UPDATE
\* sharing_participants SET status = $1 WHERE sharing_id = $2 AND user_id = $3.
updateSharingParticipantStatus(rows, userId, st) ==
    [u \in Users |->
        IF u = userId /\ rows[u].status # "none"
        THEN [rows[u] EXCEPT !.status = st]
        ELSE rows[u]]

\* updateSharingPaymentStatus (part_001:811-825).
updateSharingPaymentStatus(rows, userId, st) ==
    [u \in Users |->
        IF u = userId /\ rows[u].status # "none"
        THEN [rows[u] EXCEPT !.payment_status = st]
        ELSE rows[u]]

\* checkSharingGroupPaymentComplete (part_001:849-866): every row with
\* status 'approved' is paid, and there is one.
checkSharingGroupPaymentComplete(rows) ==
    LET approved == {u \in Users : rows[u].status = "approved"}
    IN  /\ approved # {}
        /\ \A u \in approved : rows[u].payment_status = "paid"

\* activateSharingGroup (part_001:871-885).
activateSharingGroup(s) == [s EXCEPT !.status = "active"]

\* removeSharingParticipant (part_001:890-917).
removeSharingParticipant(rows, userId) ==
    updateSharingParticipantStatus(rows, userId, "left")

CurrentParticipants(rows) ==
    Cardinality({u \in Users : rows[u].status \in {"approved", "pending"}})

\* updateSubscriptionStatus (part_001:655-714).
updateSubscriptionStatus(k, st) ==
    [subscriptions EXCEPT ![k].status = st]

\* POST /api/payment/create-subscription (part_002:146-222) by user u, who
\* names the group and no payment method in the request: the gateway creates
\* a subscription whose metadata carries userId and sharingId and whose
\* status is incomplete until its first invoice is paid.  The handler saves
\* the subscriptions row and a payment log.
CreateSubscriptionRequest(u) ==
    LET st == "incomplete"
    IN
    /\ Len(subscriptions) < MaxSubs
    /\ subscriptions' = Append(subscriptions,
                               [user_id |-> u, status |-> st, gateway |-> st])
    /\ payment_logs' = savePaymentLog(payment_logs, u, "subscription_created",
                                      SubscriptionId(Len(subscriptions) + 1), st)
    /\ UNCHANGED <<sharing, participants, refunds, intents, events, inflight,
                   handled, joinPc, rejected, refundCalc, createVars>>

\* handlePaymentSuccess (part_002:567-595) for the join intent of user u.
handlePaymentSuccess(u) ==
    LET meta == JoinIntentMetadata(u)
        paid == updateSharingParticipantStatus(participants, meta.userId, "paid")
    IN
    /\ payment_logs' = updatePaymentLog(payment_logs, IntentId(u), "succeeded")
    /\ IF meta.sharingId # NULL
       THEN /\ participants' = paid
            /\ sharing' = IF sharing.exists /\ checkSharingGroupPaymentComplete(paid)
                          THEN activateSharingGroup(sharing)
                          ELSE sharing
       ELSE UNCHANGED <<sharing, participants>>
    /\ UNCHANGED subscriptions

\* handlePaymentFailed (part_002:600-616).
handlePaymentFailed(u) ==
    /\ payment_logs' = updatePaymentLog(payment_logs, IntentId(u), "failed")
    /\ UNCHANGED <<sharing, participants, subscriptions>>

\* handleInvoicePaymentSuccess (part_002:621-639): the subscription is read
\* from the gateway as it is now.
handleInvoicePaymentSuccess(k) ==
    LET meta == SubscriptionMetadata(k)
    IN
    /\ subscriptions' = updateSubscriptionStatus(k, subscriptions[k].gateway)
    /\ participants' = updateSharingPaymentStatus(participants, meta.userId, "paid")
    /\ UNCHANGED <<sharing, payment_logs>>

\* A handler of invoice.payment_failed that evicts the participant.
handleInvoicePaymentFailed_Evicts(k) ==
    LET meta == SubscriptionMetadata(k)
    IN
    /\ participants' = updateSharingParticipantStatus(
                           updateSharingPaymentStatus(participants, meta.userId,
                                                      "failed"),
                           meta.userId, "payment_failed")
    /\ UNCHANGED <<sharing, payment_logs, subscriptions>>

\* handleInvoicePaymentFailed (part_002:644-661).
handleInvoicePaymentFailed(k) ==
    LET meta == SubscriptionMetadata(k)
    IN
    /\ participants' = updateSharingPaymentStatus(participants, meta.userId, "failed")
    /\ UNCHANGED <<sharing, payment_logs, subscriptions>>

\* handleSubscriptionUpdated (part_002:666-717); st is the status the event
\* carries.
handleSubscriptionUpdated(k, st) ==
    LET meta == SubscriptionMetadata(k)
    IN
    /\ subscriptions' = updateSubscriptionStatus(k, st)
    /\ participants' =
          IF st \in {"active", "past_due", "canceled"}
          THEN updateSharingParticipantStatus(participants, meta.userId, st)
          ELSE participants
    /\ payment_logs' = savePaymentLog(payment_logs, meta.userId,
                                      "subscription_updated", SubscriptionId(k), st)
    /\ UNCHANGED sharing

\* handleSubscriptionDeleted (part_002:722-758).
handleSubscriptionDeleted(k) ==
    LET meta == SubscriptionMetadata(k)
        removed == removeSharingParticipant(participants, meta.userId)
    IN
    /\ subscriptions' = updateSubscriptionStatus(k, "deleted")
    /\ participants' = removed
    /\ sharing' = IF sharing.exists
                  THEN [sharing EXCEPT
                          !.current_participants = CurrentParticipants(removed)]
                  ELSE sharing
    /\ payment_logs' = savePaymentLog(payment_logs, meta.userId,
                                      "subscription_deleted", SubscriptionId(k),
                                      "deleted")

\* handleWebhookEvent (part_002:533-562).
handleWebhookEvent(e) ==
    CASE e.type = "payment_intent.succeeded" -> handlePaymentSuccess(e.obj)
      [] e.type = "payment_intent.payment_failed" -> handlePaymentFailed(e.obj)
      [] e.type = "invoice.payment_succeeded" -> handleInvoicePaymentSuccess(e.obj)
      [] e.type = "invoice.payment_failed" -> handleInvoicePaymentFailed(e.obj)
      [] e.type = "customer.subscription.updated" ->
            handleSubscriptionUpdated(e.obj, e.status)
      [] e.type = "customer.subscription.deleted" -> handleSubscriptionDeleted(e.obj)
      [] OTHER -> UNCHANGED <<sharing, participants, payment_logs,
                              subscriptions>>

\* Deliveries of the events i, i+1, ... received so far.
RECURSIVE Deliveries(_)
Deliveries(i) ==
    IF i \notin EventIds THEN 0
    ELSE inflight[i] + handled[i] + Deliveries(i + 1)

\* A webhook route that goes on to process a delivery whatever constructEvent
\* says of its signature.
WebhookReceive_Unverified(i, signatureOk) ==
    /\ i \in DOMAIN events
    /\ Deliveries(1) + rejected < MaxDeliveries
    /\ inflight' = [inflight EXCEPT ![i] = @ + 1]
    /\ rejected' = IF signatureOk THEN rejected ELSE rejected + 1
    /\ UNCHANGED <<dbVars, intents, events, handled, joinPc, refundCalc, createVars>>

\* POST /api/payment/webhook, part_002:509-519: constructEvent verifies the
\* signature of a delivery of event i.  When it does not verify the handler
\* answers 400 and handleWebhookEvent is not called; otherwise the delivery
\* goes on to be processed.
WebhookReceive(i, signatureOk) ==
    /\ i \in DOMAIN events
    /\ Deliveries(1) + rejected < MaxDeliveries
    /\ inflight' = IF signatureOk THEN [inflight EXCEPT ![i] = @ + 1]
                   ELSE inflight
    /\ rejected' = IF signatureOk THEN rejected ELSE rejected + 1
    /\ UNCHANGED <<dbVars, intents, events, handled, joinPc, refundCalc, createVars>>

\* The response to a delivery: 400 on a bad signature, else 200
\* {received: true} once handleWebhookEvent has returned.
WebhookResponse(signatureOk) ==
    IF signatureOk THEN Resp(200, "received") ELSE Resp(400, "signature")

\* part_002:521-527: an accepted delivery of event i is processed and
\* acknowledged.
WebhookHandle(i) ==
    /\ i \in DOMAIN events
    /\ inflight[i] > 0
    /\ handleWebhookEvent(events[i])
    /\ inflight' = [inflight EXCEPT ![i] = @ - 1]
    /\ handled' = [handled EXCEPT ![i] = @ + 1]
    /\ UNCHANGED <<refunds, intents, events, joinPc, rejected, refundCalc, createVars>>

\* ------------------------------------------------------------------ Next

Next ==
    \/ \E u \in Users, maxp \in CreateMaxChoices : Create(u, maxp)
    \/ \E u \in Users : JoinCheck(u)
    \/ \E u \in Users, ok \in BOOLEAN : JoinFinish(u, ok)
    \/ \E u \in Users, pi \in Users, ok \in SUBSET Users, t \in 1..MaxTime :
          ConfirmPayment(u, pi, ok, t)
    \/ \E u \in Users, d \in LeaveDays, ok \in BOOLEAN : Leave(u, d, ok)
    \/ \E st \in AdminStatusChoices : Admin(st)
    \/ \E expired \in BOOLEAN : cleanupExpiredSharings(expired)
    \/ \E u \in Users : CreateSubscriptionRequest(u)
    \/ \E u \in Users : PayIntent(u)
    \/ \E k \in 1..MaxSubs, type \in SubscriptionEventTypes,
          st \in {"active", "past_due", "canceled"} :
          EmitSubscriptionEvent(k, type, st)
    \/ \E i \in EventIds, signatureOk \in BOOLEAN :
          WebhookReceive(i, signatureOk)
    \/ \E i \in EventIds : WebhookHandle(i)

Spec == Init /\ [][Next]_vars

\* ------------------------------------------- two events of one intent

\* The payment of the join intents and the webhook deliveries of their
\* events, with room for the two events one intent can have: a failed
\* attempt and, later, the success.
NextIntentEvents ==
    \/ \E u \in Users : PayIntent(u)
    \/ \E u \in Users, pi \in Users, ok \in SUBSET Users, t \in 1..MaxTime :
          ConfirmPayment(u, pi, ok, t)
    \/ \E u \in Users, type \in IntentEventTypes :
          EmitIntentEvent(u, type)
    \/ \E i \in EventIds, signatureOk \in BOOLEAN :
          WebhookReceive(i, signatureOk)
    \/ \E i \in EventIds : WebhookHandle(i)

SpecIntentEvents == Init /\ [][NextIntentEvents]_vars

\* ------------------------------------------- a handler that fails

\* handleSubscriptionDeleted (part_002:722-758) when it throws after its
\* first n statements.  Its statements are, in order, the UPDATE of
\* updateSubscriptionStatus, the two UPDATEs of removeSharingParticipant and
\* the INSERT of savePaymentLog; each is a pool.query of its own and is
\* committed when it returns.
handleSubscriptionDeletedUpTo(k, n) ==
    LET meta == SubscriptionMetadata(k)
        removed == removeSharingParticipant(participants, meta.userId)
    IN
    /\ subscriptions' = IF n >= 1 THEN updateSubscriptionStatus(k, "deleted")
                        ELSE subscriptions
    /\ participants' = IF n >= 2 THEN removed ELSE participants
    /\ sharing' = IF n >= 3 /\ sharing.exists
                  THEN [sharing EXCEPT
                          !.current_participants = CurrentParticipants(removed)]
                  ELSE sharing
    /\ payment_logs' = IF n >= 4
                       THEN savePaymentLog(payment_logs, meta.userId,
                                           "subscription_deleted",
                                           SubscriptionId(k), "deleted")
                       ELSE payment_logs

\* part_002:521-527 when handleWebhookEvent throws while it handles a
\* delivery of the subscription-deleted event i: the route answers 500 and
\* the delivery is not acknowledged.
WebhookHandleFails(i, n) ==
    /\ i \in DOMAIN events
    /\ inflight[i] > 0
    /\ events[i].type = "customer.subscription.deleted"
    /\ handleSubscriptionDeletedUpTo(events[i].obj, n)
    /\ inflight' = [inflight EXCEPT ![i] = @ - 1]
    /\ rejected' = rejected + 1
    /\ UNCHANGED <<refunds, intents, events, handled, joinPc, refundCalc, createVars>>

\* The create-subscription request, the gateway's subscription events and
\* their deliveries, each of which is handled to its end or fails part way.
NextWebhookFailure ==
    \/ \E u \in Users : CreateSubscriptionRequest(u)
    \/ \E k \in 1..MaxSubs, type \in SubscriptionEventTypes,
          st \in {"active", "past_due", "canceled"} :
          EmitSubscriptionEvent(k, type, st)
    \/ \E i \in EventIds, signatureOk \in BOOLEAN :
          WebhookReceive(i, signatureOk)
    \/ \E i \in EventIds : WebhookHandle(i)
    \/ \E i \in EventIds, n \in 0..4 : WebhookHandleFails(i, n)

SpecWebhookFailure == Init /\ [][NextWebhookFailure]_vars

\* ------------------------------------------- repeated confirmations

\* The payment of the join intents, confirm-payment and leave, with a clock
\* that moves between two confirmations: NOW() of a confirm-payment is any
\* of 1..MaxClock not before the time stored last.
NextActivation ==
    \/ \E u \in Users : PayIntent(u)
    \/ \E u \in Users, pi \in Users, ok \in SUBSET Users, t \in 1..MaxClock :
          ConfirmPayment(u, pi, ok, t)
    \/ \E u \in Users, d \in LeaveDays, ok \in BOOLEAN : Leave(u, d, ok)

SpecActivation == Init /\ [][NextActivation]_vars

\* ------------------------------------------- the daily sweep

\* Payment, confirm-payment and leave, which may or may not happen, and the
\* cleanup sweep, which setInterval (sharing.js:1075) runs every day: a
\* sweep for which the group is old enough keeps coming.
NextSweep ==
    \/ NextActivation
    \/ \E expired \in BOOLEAN : cleanupExpiredSharings(expired)

SpecSweep ==
    Init /\ [][NextSweep]_vars /\ WF_vars(cleanupExpiredSharings(TRUE))

\* ------------------------------------------- the groups of one creator

\* The rows the existingSharing lookup returns (sharing.js:228-232): the
\* creator's groups of the service whose status is recruiting or active.
\* The lookup carries no `connection` and sees the committed rows.
existingSharing ==
    {g \in DOMAIN groups : groups[g] \in {"recruiting", "active"}}

\* sharing.js:176-239: a create request of the creator up to the
\* existingSharing lookup, which answers 400 when it returns a row.
CreateLookup(r) ==
    /\ createPc[r] = "idle"
    /\ Len(groups)
          + Cardinality({q \in CreateRequests : createPc[q] = "checked"})
          < MaxGroups
    /\ createPc' = IF existingSharing # {} THEN createPc
                   ELSE [createPc EXCEPT ![r] = "checked"]
    /\ UNCHANGED <<dbVars, intents, events, inflight, handled, joinPc,
                   rejected, refundCalc, groups>>

\* sharing.js:241-292: the two INSERTs, the commit and the 201.  The
\* sharings table has no unique constraint on creator_id and service_type
\* (part_001:70-93).
CreateInsert(r) ==
    /\ createPc[r] = "checked"
    /\ groups' = Append(groups, "recruiting")
    /\ createPc' = [createPc EXCEPT ![r] = "idle"]
    /\ UNCHANGED <<dbVars, intents, events, inflight, handled, joinPc,
                   rejected, refundCalc>>

\* PUT /api/sharing/:id/admin (sharing.js:1013-1046) for group g.
AdminGroup(g, st) ==
    /\ g \in DOMAIN groups
    /\ groups' = [groups EXCEPT ![g] = st]
    /\ UNCHANGED <<dbVars, intents, events, inflight, handled, joinPc,
                   rejected, refundCalc, createPc>>

\* cleanupExpiredSharings (sharing.js:1051-1072) when the groups of `old`
\* were created more than 30 days ago.  No join is made here, so each group
\* has one active participant, its creator.
cleanupExpiredGroups(old) ==
    /\ old \subseteq DOMAIN groups
    /\ groups' = [g \in DOMAIN groups |->
                     IF g \in old /\ groups[g] = "recruiting"
                     THEN "ended" ELSE groups[g]]
    /\ UNCHANGED <<dbVars, intents, events, inflight, handled, joinPc,
                   rejected, refundCalc, createPc>>

\* Create requests of one creator for one service, which may overlap, the
\* administrator's status changes and the sweep.
NextCreate ==
    \/ \E r \in CreateRequests : CreateLookup(r)
    \/ \E r \in CreateRequests : CreateInsert(r)
    \/ \E g \in 1..MaxGroups, st \in AdminStatusChoices : AdminGroup(g, st)
    \/ \E old \in SUBSET (1..MaxGroups) : cleanupExpiredGroups(old)

InitCreate ==
    /\ sharing = NoSharing
    /\ participants = [u \in Users |-> NoRow]
    /\ payment_logs = <<>>
    /\ intents = [u \in Users |-> "none"]
    /\ InitGateway
    /\ refundCalc = NoCalc

SpecCreate == InitCreate /\ [][NextCreate]_vars

\* ------------------------------------------- calculateProRatedRefund

\* The amounts, month lengths and days a call is made with.
RefundAmounts == (0..MaxCost) \cup {30000}
DaysInMonth == 28..31

InitRefund ==
    /\ sharing = NoSharing
    /\ participants = [u \in Users |-> NoRow]
    /\ payment_logs = <<>>
    /\ intents = [u \in Users |-> "none"]
    /\ InitGateway
    /\ \E m \in RefundAmounts, dim \in DaysInMonth :
          \E day \in 1..dim :
             refundCalc = [monthlyAmount |-> m, daysInMonth |-> dim,
                           day |-> day, refund |-> -1]

\* The call returns.
CalculateRefund ==
    /\ refundCalc.refund = -1
    /\ \E r \in calculateProRatedRefund(refundCalc.monthlyAmount,
                                         refundCalc.daysInMonth, refundCalc.day) :
          refundCalc' = [refundCalc EXCEPT !.refund = r]
    /\ UNCHANGED <<dbVars, intents, events, inflight, handled, joinPc, rejected,
                   createVars>>

SpecRefund == InitRefund /\ [][CalculateRefund]_vars

\* ================================================================ claims

\* Log rows that record the handling of event i: handleSubscriptionUpdated
\* and handleSubscriptionDeleted insert one row each time they run.
EventLogRows(i) ==
    {j \in DOMAIN payment_logs :
        /\ payment_logs[j].stripe_id = SubscriptionId(events[i].obj)
        /\ \/ /\ events[i].type = "customer.subscription.updated"
              /\ payment_logs[j].type = "subscription_updated"
              /\ payment_logs[j].status = events[i].status
           \/ /\ events[i].type = "customer.subscription.deleted"
              /\ payment_logs[j].type = "subscription_deleted"}

\* A successful payment of user u is on record: the participant row says
\* paid, or the payment log of the join's intent says succeeded.
PaymentRecorded(u) ==
    \/ participants[u].payment_status = "paid"
    \/ \E j \in DOMAIN payment_logs :
          /\ payment_logs[j].user_id = u
          /\ payment_logs[j].stripe_payment_intent_id
                = participants[u].payment_intent_id
          /\ payment_logs[j].status = "succeeded"

C4_ReplayChangesNothing ==
    [][\A i \in EventIds :
          (WebhookHandle(i) /\ handled[i] >= 1)
             => UNCHANGED <<sharing, participants, subscriptions,
                            payment_logs>>]_vars

\* C5: of two deliveries of one event that are processed concurrently exactly
\* one applies the event (the event is applied once however many of its
\* deliveries are handled), and both are acknowledged with 200.
C5_OneDeliveryApplies ==
    /\ WebhookResponse(TRUE).code = 200
    /\ \A i \in DOMAIN events :
          (events[i].type = "customer.subscription.updated" /\ handled[i] >= 1)
             => Cardinality(EventLogRows(i)) = 1

C9_RefundIsRounded ==
    refundCalc.refund # -1 =>
        /\ refundCalc.refund =
              Round(refundCalc.monthlyAmount
                       * (refundCalc.daysInMonth - refundCalc.day),
                    refundCalc.daysInMonth)
        /\ (refundCalc.monthlyAmount = 30000 /\ refundCalc.daysInMonth = 30
               /\ refundCalc.day = 20) => refundCalc.refund = 10000

C12_BadSignatureRejected ==
    [][\A i \in EventIds :
          WebhookReceive(i, FALSE)
             => /\ WebhookResponse(FALSE).code = 400
                /\ UNCHANGED <<dbVars, inflight, handled>>]_vars

\* A delivery with a bad signature has been answered while an event exists.
C12_Witness == rejected >= 1 /\ Len(events) >= 1

C17_GatewayFailureRollsBack ==
    [][\A u \in Users :
          JoinFinish(u, FALSE)
             => /\ participants' = participants
                /\ ActiveCount' + PendingCount' = ActiveCount + PendingCount
                /\ payment_logs' = payment_logs
                /\ JoinFinishResponse(u, FALSE).code = 400
                /\ JoinTransaction(u, FALSE) # "open"]_vars

\* C18: a join that passed its validations and whose payment intent the
\* gateway created completes: it answers 200 with the participant and the
\* intent, and the user's record is Pending and carries the intent's
\* reference.
C18_JoinCompletes ==
    [][\A u \in Users :
          (/\ JoinFinish(u, TRUE)
           /\ sharing.status = "recruiting"
           /\ participants[u].status = "none"
           /\ ActiveCount + PendingCount < sharing.max_participants)
          => /\ JoinFinishResponse(u, TRUE).code = 200
             /\ participants'[u].status = "pending"
             /\ participants'[u].payment_intent_id = u]_vars

C23_DeletedSubscriptionLeaves ==
    [][\A i \in EventIds :
          (/\ WebhookHandle(i)
           /\ events[i].type = "customer.subscription.deleted"
           /\ participants[SubscriptionMetadata(events[i].obj).userId].status
                 = "active")
          => /\ participants'[SubscriptionMetadata(events[i].obj).userId].status
                   = "left"
             /\ (sharing.status = "active" /\ ActiveCount' < 2)
                   => sharing'.status = "recruiting"
             /\ refunds' = refunds]_vars

\* C24: handling an invoice-failed event does not evict the participant: an
\* Active participant stays Active and counts as before, the group is
\* unchanged, and only that participant's payment state is marked failed.
C24_InvoiceFailureKeepsParticipant ==
    [][\A i \in EventIds :
          (/\ WebhookHandle(i)
           /\ events[i].type = "invoice.payment_failed"
           /\ participants[SubscriptionMetadata(events[i].obj).userId].status
                 = "active")
          => LET u == SubscriptionMetadata(events[i].obj).userId
             IN  /\ participants'[u] =
                       [participants[u] EXCEPT !.payment_status = "failed"]
                 /\ \A v \in Users \ {u} : participants'[v] = participants[v]
                 /\ ActiveCount' = ActiveCount
                 /\ sharing' = sharing]_vars

\* A delivery of an invoice-failed event has been handled and the Active
\* participant it names is marked failed.
C24_Witness ==
    \E i \in DOMAIN events :
        /\ events[i].type = "invoice.payment_failed"
        /\ handled[i] >= 1
        /\ participants[SubscriptionMetadata(events[i].obj).userId].status
              = "active"
        /\ participants[SubscriptionMetadata(events[i].obj).userId].payment_status
              = "failed"

\* C25: in every reachable state the status of every participant record is
\* one of Pending, Active, PaymentFailed and Left.
C25_ParticipantStatusVocabulary ==
    \A u \in Users :
        participants[u].status # "none"
           => participants[u].status \in PARTICIPANT_STATUS

\* C26: a leave by the group's creator, or by a user who has no Active
\* record in the group, is rejected, and the participant records, the group
\* with its status and started_at, and the refund records are unchanged.
C26_LeaveRejected ==
    [][\A u \in Users, d \in LeaveDays, ok \in BOOLEAN :
          (~sharing.exists \/ participants[u].status # "active"
              \/ sharing.creator_id = u)
             => /\ LeaveResponse(u, d, ok).code \in {400, 404}
                /\ Leave(u, d, ok)
                      => UNCHANGED <<participants, sharing, refunds>>]_vars

\* An Active group with its creator and with a user whose record is not
\* Active: a leave by either is one the validation answers.
C26_Witness ==
    /\ sharing.exists /\ sharing.status = "active"
    /\ participants[sharing.creator_id].status = "active"
    /\ \E u \in Users : participants[u].status \in {"pending", "left"}

\* C27: handling a webhook event is atomic with respect to failure: when the
\* handler of a subscription-deleted event fails at any point, either both
\* the event's payment-log record and the participant's transition are
\* applied, or neither is.
C27_HandlerFailureIsAtomic ==
    [][\A i \in EventIds, n \in 0..4 :
          (/\ WebhookHandleFails(i, n)
           /\ participants[SubscriptionMetadata(events[i].obj).userId].status
                 \in {"pending", "active"})
          => (payment_logs' # payment_logs <=> participants' # participants)]_vars

C30_CreateMakesRecruitingGroup ==
    [][~sharing.exists
       => \A u \in Users, maxp \in CreateMaxChoices :
             Create(u, maxp)
             => IF maxp < 2 \/ maxp > 10
                THEN /\ CreateResponse(u, maxp).code = 400
                     /\ ~sharing'.exists
                     /\ \A v \in Users : participants'[v].status = "none"
                ELSE /\ CreateResponse(u, maxp).code = 201
                     /\ sharing'.exists
                     /\ sharing'.status = "recruiting"
                     /\ sharing'.started_at = NULL
                     /\ sharing'.creator_id = u
                     /\ participants'[u].status = "active"
                     /\ \A v \in Users \ {u} :
                           participants'[v].status = "none"]_vars

\* A group that a create request of user 2 has made.
C30_Witness ==
    /\ sharing.exists
    /\ sharing.creator_id = 2
    /\ sharing.status = "recruiting"
    /\ sharing.started_at = NULL
    /\ participants[2].status = "active"
    /\ \A v \in Users \ {2} : participants[v].status = "none"

\* C31: within a join the slot reservation (the capacity check and the
\* insertion of the Pending participant record) is committed before the
\* gateway call that creates the payment intent, and no database transaction
\* is open while that call is in flight.
C31_ReservedBeforeGatewayCall ==
    \A u \in Users :
        joinPc[u] = "gateway"
           => /\ participants[u].status = "pending"
              /\ ~JoinTransactionOpenAt(joinPc[u])

\* C32: in every reachable state the creator of a group that is Recruiting,
\* Active or Paused has an Active participant record in the group: no leave
\* and no webhook event removes or deactivates the creator.
C32_CreatorStaysActive ==
    (sharing.exists /\ sharing.status \in {"recruiting", "active", "paused"})
        => participants[sharing.creator_id].status = "active"

\* C33: in every reachable state each (creator, service_type) pair has at
\* most one group whose status is Recruiting or Active, under any
\* interleaving of create requests and later status changes of the groups.
C33_OneOpenGroupPerCreatorAndService ==
    Cardinality({g \in DOMAIN groups :
                    groups[g] \in {"recruiting", "active"}}) <= 1

C35_RefundBoundedAndDecreasing ==
    refundCalc.refund # -1 =>
        /\ 0 <= refundCalc.refund
        /\ refundCalc.refund <= refundCalc.monthlyAmount
        /\ \A later \in (refundCalc.day + 1)..refundCalc.daysInMonth :
              \A r \in calculateProRatedRefund(refundCalc.monthlyAmount,
                                                refundCalc.daysInMonth, later) :
                 r <= refundCalc.refund
        /\ refundCalc.day = refundCalc.daysInMonth
              => (refundCalc.refund = 0 /\ ~(refundCalc.refund > 0))

\* A refund of 0 computed on the last day of a month for a positive amount.
C35_Witness ==
    /\ refundCalc.refund = 0
    /\ refundCalc.monthlyAmount = 30000
    /\ refundCalc.day = refundCalc.daysInMonth

====
